---- MODULE Spec2Model ----
(***************************************************************************)
(* dayssince-rs: the guild-scoped event store behind the slash commands    *)
(* create, update, days_since, reset, remove, list and the autocomplete    *)
(* callback of src/main.rs.                                                *)
(*                                                                         *)
(* Strings are sequences of pieces.  User-supplied and computed text       *)
(* (guild ids, names, descriptions, numbers) is one piece per character;   *)
(* the fixed text of a format string is one piece per literal, and the     *)
(* marker '*' that maybe_make_ephemeral looks for is a piece of its own.   *)
(***************************************************************************)
EXTENDS Integers, Sequences, FiniteSets, TLC

\* ---------------------------------------------------------------- bounds
MaxTime == 2        \* the clock runs over 0..MaxTime
TicksPerDay == 2    \* clock ticks in one whole day
MaxKeys == 2        \* create and reset stop growing the store at MaxKeys keys
MaxGuildId == 12    \* the key encoding is tried on the guild ids 1..MaxGuildId
MaxNameLen == 2     \* and on the names of 1..MaxNameLen characters
MaxTasks == 2       \* commands in flight at the same time

\* ---------------------------------------------------------------- inputs
None == 0                                   \* ctx.guild_id() is None
GuildIds == {1, 12}                         \* "1" is a string prefix of "12"
Contexts == GuildIds \cup {None}
Names == {<<"a">>, <<"1", ":", "a">>}
Texts == {<<"t", "0">>, <<"x">>}
Partials == {<<"a">>, <<"1">>}

\* persist: the PersistInstance; now: what Utc::now() reads; reply: the answer
\* of the command that has run, until it is delivered; events: the events the
\* commands have reported created and not removed, with the text last given;
\* created: the event the last create made, while the clock has not moved
\* and nothing but days_since has run since; probe: two (guild, name) pairs
\* and the keys format! makes of them; tasks: the commands that run at the
\* same time, each with the place it has reached in its handler.
VARIABLES persist, now, reply, events, created, probe, tasks

vars == <<persist, now, reply, events, created, probe, tasks>>

\* ---------------------------------------------------------------- strings
Digits == <<"0", "1", "2", "3", "4", "5", "6", "7", "8", "9">>

RECURSIVE NatToString(_)
NatToString(n) ==
    IF n < 10 THEN <<Digits[n + 1]>>
    ELSE NatToString(n \div 10) \o <<Digits[(n % 10) + 1]>>

\* Display of an integer: decimal digits, '-' in front of a negative one.
to_string(n) == IF n < 0 THEN <<"-">> \o NatToString(-n) ELSE NatToString(n)

\* A key that runs the guild and the name together.
KeyNoSeparator(guild, name) == guild \o name

\* format!("{guild}:{name}")
Key(guild, name) == guild \o <<":">> \o name

\* str::starts_with
StartsWith(s, p) == Len(p) <= Len(s) /\ SubSeq(s, 1, Len(p)) = p

\* str::trim_start_matches: removes the pattern as often as it is a prefix.
RECURSIVE TrimStartMatches(_, _)
TrimStartMatches(s, p) ==
    IF Len(p) > 0 /\ StartsWith(s, p)
    THEN TrimStartMatches(SubSeq(s, Len(p) + 1, Len(s)), p)
    ELSE s

\* str::contains
Contains(s, p) ==
    \E i \in 0..(Len(s) - Len(p)) : SubSeq(s, i + 1, i + Len(p)) = p

\* String::pop: drops the last character, if there is one.
Pop(s) == IF Len(s) = 0 THEN s ELSE SubSeq(s, 1, Len(s) - 1)

\* A day count that includes the day that has only begun.
NumDaysStarted(d) == (d \div TicksPerDay) + 1

\* A day count rounded down, away from zero for a negative duration.
NumDaysFloor(d) == d \div TicksPerDay

\* Duration::num_days: whole days, truncated toward zero.
NumDays(d) == IF d >= 0 THEN d \div TicksPerDay ELSE -((-d) \div TicksPerDay)

\* ---------------------------------------------------------------- store
\* PersistInstance as the commands use it: a map from key to saved value.
Has(store, key) == key \in DOMAIN store

Save(store, key, value) ==
    [k \in DOMAIN store \cup {key} |-> IF k = key THEN value ELSE store[k]]

\* A removal that reports success and deletes nothing.
RemoveNothing(store, key) == store

Remove(store, key) == [k \in DOMAIN store \ {key} |-> store[k]]

\* PersistInstance::list returns the keys in an order of the store's choosing.
Orders(S) ==
    {o \in [1..Cardinality(S) -> S] : \A i, j \in DOMAIN o : o[i] = o[j] => i = j}

\* ---------------------------------------------------------------- replies
\* reply_callback: a reply that starts with '*' loses every leading '*' and
\* is sent ephemeral.
MaybeMakeEphemeral(content) ==
    IF StartsWith(content, <<"*">>)
    THEN [content |-> TrimStartMatches(content, <<"*">>), ephemeral |-> TRUE]
    ELSE [content |-> content, ephemeral |-> FALSE]

\* What the invoking user gets back from one command: ok is Ok(()) against
\* Err(..), content and ephemeral are the message as sent, names is the
\* suggestion list of an autocomplete call.  ops are the kinds of call the
\* handler made on the store, in the order it first made them, fault the
\* call that failed for a storage reason.
Reply(cmd, guild, name, text, ok, content, ops) ==
    [cmd |-> cmd, guild |-> guild, name |-> name, text |-> text, ok |-> ok,
     content |-> MaybeMakeEphemeral(content).content,
     ephemeral |-> MaybeMakeEphemeral(content).ephemeral,
     names |-> <<>>, ops |-> ops, fault |-> "none"]

NoReply ==
    [cmd |-> "none", guild |-> None, name |-> <<>>, text |-> <<>>, ok |-> TRUE,
     content |-> <<>>, ephemeral |-> FALSE, names |-> <<>>, ops |-> <<>>,
     fault |-> "none"]

NoEvent == <<>>

Idle == reply = NoReply

NoProbe == <<>>

NoTasks == <<>>

Init ==
    /\ persist = <<>>
    /\ now = 0
    /\ reply = NoReply
    /\ events = <<>>
    /\ created = NoEvent
    /\ probe = NoProbe
    /\ tasks = NoTasks

\* ---------------------------------------------------------------- clock
\* Utc::now() is the wall clock: it advances, and it can be set back.  A
\* handler reads it once, so it moves between commands.
Tick ==
    /\ Idle
    /\ now < MaxTime
    /\ now' = now + 1
    /\ created' = NoEvent
    /\ UNCHANGED <<persist, reply, events, probe, tasks>>

ClockSetBack ==
    /\ Idle
    /\ now > 0
    /\ now' = now - 1
    /\ created' = NoEvent
    /\ UNCHANGED <<persist, reply, events, probe, tasks>>

\* ctx.say(..).await and the framework's report of an Err: the answer reaches
\* the user and the next command can run.
Delivered ==
    /\ ~Idle
    /\ reply' = NoReply
    /\ UNCHANGED <<persist, now, events, created, probe, tasks>>

\* ---------------------------------------------------------------- commands
\* A create that saves whether or not the key is there.
create_upsert(guild, name, text) ==
    IF guild = None
    THEN /\ reply' = Reply("create", guild, name, text, FALSE, <<"*", "Invalid guild">>,
                           <<>>)
         /\ UNCHANGED <<persist, now, events>>
    ELSE LET key == Key(to_string(guild), name) IN
         /\ Has(persist, key) \/ Cardinality(DOMAIN persist) < MaxKeys
         /\ persist' = Save(persist, key, [text |-> text, time |-> now])
         /\ reply' = IF Has(persist, key)
                     THEN Reply("create", guild, name, text, FALSE,
                                <<"*", "Event already exists.">>,
                                <<"load">>)
                     ELSE Reply("create", guild, name, text, TRUE, <<"*", "Event created.">>,
                                <<"load", "save">>)
         /\ events' = IF Has(persist, key) THEN events
                      ELSE Save(events, <<guild, name>>, text)
         /\ UNCHANGED now

create(guild, name, text) ==
    IF guild = None
    THEN /\ reply' = Reply("create", guild, name, text, FALSE, <<"*", "Invalid guild">>,
                           <<>>)
         /\ UNCHANGED <<persist, now, events>>
    ELSE LET key == Key(to_string(guild), name) IN
         IF ~Has(persist, key)
         THEN /\ Cardinality(DOMAIN persist) < MaxKeys
              /\ persist' = Save(persist, key, [text |-> text, time |-> now])
              /\ reply' = Reply("create", guild, name, text, TRUE, <<"*", "Event created.">>,
                                <<"load", "save">>)
              /\ events' = Save(events, <<guild, name>>, text)
              /\ UNCHANGED now
         ELSE /\ reply' = Reply("create", guild, name, text, FALSE,
                                <<"*", "Event already exists.">>,
                                <<"load">>)
              /\ UNCHANGED <<persist, now, events>>

\* An update that stamps the record with the time of the update.
UpdateValueNow(text, time, clock) == [text |-> text, time |-> clock]

\* The value update saves: the new text with the loaded time (line 73).
UpdateValue(text, time, clock) == [text |-> text, time |-> time]

\* An update that creates the event it does not find.
update_or_create(guild, name, text) ==
    IF guild = None
    THEN /\ reply' = Reply("update", guild, name, text, FALSE, <<"Invalid guild">>, <<>>)
         /\ UNCHANGED <<persist, now, events>>
    ELSE LET key == Key(to_string(guild), name) IN
         /\ persist' = Save(persist, key,
                            [text |-> text,
                             time |-> IF Has(persist, key) THEN persist[key].time ELSE now])
         /\ reply' = Reply("update", guild, name, text, TRUE, <<"*", "Event updated.">>,
                           <<"load", "save">>)
         /\ events' = Save(events, <<guild, name>>, text)
         /\ UNCHANGED now

update(guild, name, text) ==
    IF guild = None
    THEN /\ reply' = Reply("update", guild, name, text, FALSE, <<"Invalid guild">>, <<>>)
         /\ UNCHANGED <<persist, now, events>>
    ELSE LET key == Key(to_string(guild), name) IN
         IF Has(persist, key)
         THEN /\ persist' = Save(persist, key, UpdateValue(text, persist[key].time, now))
              /\ reply' = Reply("update", guild, name, text, TRUE, <<"*", "Event updated.">>,
                                <<"load", "save">>)
              /\ events' = Save(events, <<guild, name>>, text)
              /\ UNCHANGED now
         ELSE /\ reply' = Reply("update", guild, name, text, FALSE,
                                <<"*", "Event does not exist.">>,
                                <<"load">>)
              /\ UNCHANGED <<persist, now, events>>

\* A message that also takes "0" for a singular.
DaysSinceMessageUpToOne(text, time, clock) ==
    LET n == NumDays(clock - time) IN
    <<"It has been ">> \o to_string(n) \o <<" ">>
        \o <<IF n <= 1 /\ n >= 0 THEN "day" ELSE "days">> \o <<" since ">> \o text \o <<".">>

\* format!("It has been {} {} since {}.", days_since, .., text)
DaysSinceMessage(text, time, clock) ==
    LET n == NumDays(clock - time) IN
    <<"It has been ">> \o to_string(n) \o <<" ">>
        \o <<IF n = 1 THEN "day" ELSE "days">> \o <<" since ">> \o text \o <<".">>

days_since(guild, name) ==
    IF guild = None
    THEN /\ reply' = Reply("days_since", guild, name, <<>>, FALSE, <<"Invalid guild">>,
                           <<>>)
         /\ UNCHANGED <<persist, now, events>>
    ELSE LET key == Key(to_string(guild), name) IN
         /\ reply' = IF Has(persist, key)
                     THEN Reply("days_since", guild, name, <<>>, TRUE,
                                DaysSinceMessage(persist[key].text, persist[key].time, now),
                                <<"load">>)
                     ELSE Reply("days_since", guild, name, <<>>, FALSE,
                                <<"*", "Event does not exist.">>,
                                <<"load">>)
         /\ UNCHANGED <<persist, now, events>>

\* The key reset saves under (line 121).
ResetSaveKey(guild, name) == guild

reset(guild, name) ==
    IF guild = None
    THEN /\ reply' = Reply("reset", guild, name, <<>>, FALSE, <<"Invalid_guild">>, <<>>)
         /\ UNCHANGED <<persist, now, events>>
    ELSE LET g == to_string(guild)
             key == Key(g, name) IN
         IF Has(persist, key)
         THEN /\ \/ Has(persist, ResetSaveKey(g, name))
                 \/ Cardinality(DOMAIN persist) < MaxKeys
              /\ persist' = Save(persist, ResetSaveKey(g, name),
                                 [text |-> persist[key].text, time |-> now])
              /\ reply' = Reply("reset", guild, name, <<>>, TRUE,
                                <<"It has now been 0 days since ">>
                                    \o persist[key].text \o <<".">>,
                                <<"load", "save">>)
              /\ UNCHANGED <<now, events>>
         ELSE /\ reply' = Reply("reset", guild, name, <<>>, FALSE,
                                <<"*", "Event does not exist.">>,
                                <<"load">>)
              /\ UNCHANGED <<persist, now, events>>

remove(guild, name) ==
    IF guild = None
    THEN /\ reply' = Reply("remove", guild, name, <<>>, FALSE, <<"Invalid_guild">>, <<>>)
         /\ UNCHANGED <<persist, now, events>>
    ELSE LET key == Key(to_string(guild), name) IN
         IF Has(persist, key)
         THEN /\ persist' = Remove(persist, key)
              /\ reply' = Reply("remove", guild, name, <<>>, TRUE, <<"*", "Event removed.">>,
                                <<"remove">>)
              /\ events' = Remove(events, <<guild, name>>)
              /\ UNCHANGED now
         ELSE /\ reply' = Reply("remove", guild, name, <<>>, FALSE,
                                <<"*", "Event does not exist.">>,
                                <<"remove">>)
              /\ UNCHANGED <<persist, now, events>>

\* The test that decides whether a stored key is one of the guild's
\* (lines 23 and 156).
KeyInGuild(key, guild) == StartsWith(key, guild)

\* The loop of list over the keys in the order the store returned them,
\* followed by list.pop().
RECURSIVE ListLines(_, _, _)
ListLines(order, store, guild) ==
    IF order = <<>> THEN <<>>
    ELSE LET item == Head(order) IN
         (IF KeyInGuild(item, guild)
          THEN TrimStartMatches(item, Key(guild, <<>>)) \o <<": ">>
                   \o store[item].text \o <<"\n">>
          ELSE <<>>)
         \o ListLines(Tail(order), store, guild)

ListText(order, store, guild) == Pop(ListLines(order, store, guild))

\* What list says (lines 169-173).
ListMessage(order, store, guild) ==
    LET text == ListText(order, store, guild) IN
    IF text = <<>> THEN <<"*", "No events found">> ELSE <<"*">> \o text

\* The store calls of list: the enumeration, and a load for every key that
\* passes the test (lines 155-160).
ListOps(store, guild) ==
    <<"list">> \o (IF \E key \in DOMAIN store : KeyInGuild(key, guild)
                   THEN <<"load">> ELSE <<>>)

list(guild) ==
    IF guild = None
    THEN /\ reply' = Reply("list", guild, <<>>, <<>>, FALSE, <<"Invalid_guild">>, <<>>)
         /\ UNCHANGED <<persist, now, events>>
    ELSE \E order \in Orders(DOMAIN persist) :
         /\ reply' = Reply("list", guild, <<>>, <<>>, TRUE,
                            ListMessage(order, persist, to_string(guild)),
                           ListOps(persist, to_string(guild)))
         /\ UNCHANGED <<persist, now, events>>

\* The iterator chain of autocomplete_name over the keys in store order.
RECURSIVE AutocompleteNames(_, _, _)
AutocompleteNames(order, guild, partial) ==
    IF order = <<>> THEN <<>>
    ELSE LET key == Head(order)
             name == TrimStartMatches(key, Key(guild, <<>>)) IN
         (IF KeyInGuild(key, guild) /\ Contains(name, partial) THEN <<name>> ELSE <<>>)
         \o AutocompleteNames(Tail(order), guild, partial)

autocomplete_name(guild, partial) ==
    \E order \in Orders(DOMAIN persist) :
        /\ reply' = [Reply("autocomplete_name", guild, <<>>, partial, TRUE, <<>>, <<"list">>)
                        EXCEPT !.names = IF guild = None THEN <<>>
                                         ELSE AutocompleteNames(order, to_string(guild), partial)]
        /\ UNCHANGED <<persist, now, events>>

\* The event a successful create has just made, kept for the days_since
\* that follows it.
Created(r) ==
    IF r.cmd = "create" /\ r.ok THEN <<r.guild, r.name, r.text>>
    ELSE IF r.cmd = "days_since" THEN created
    ELSE NoEvent

\* The dispatcher runs one command at a time, with the arguments the user
\* typed.
CreateCommand ==
    \E guild \in Contexts, name \in Names, text \in Texts :
        /\ Idle /\ create(guild, name, text) /\ created' = Created(reply')
        /\ UNCHANGED <<probe, tasks>>

UpdateCommand ==
    \E guild \in Contexts, name \in Names, text \in Texts :
        /\ Idle /\ update(guild, name, text) /\ created' = Created(reply')
        /\ UNCHANGED <<probe, tasks>>

DaysSinceCommand ==
    \E guild \in Contexts, name \in Names :
        /\ Idle /\ days_since(guild, name) /\ created' = Created(reply')
        /\ UNCHANGED <<probe, tasks>>

ResetCommand ==
    \E guild \in Contexts, name \in Names :
        /\ Idle /\ reset(guild, name) /\ created' = Created(reply')
        /\ UNCHANGED <<probe, tasks>>

RemoveCommand ==
    \E guild \in Contexts, name \in Names :
        /\ Idle /\ remove(guild, name) /\ created' = Created(reply')
        /\ UNCHANGED <<probe, tasks>>

ListCommand ==
    \E guild \in Contexts :
        /\ Idle /\ list(guild) /\ created' = Created(reply')
        /\ UNCHANGED <<probe, tasks>>

Autocomplete ==
    \E guild \in Contexts, partial \in Partials :
        /\ Idle /\ autocomplete_name(guild, partial) /\ created' = Created(reply')
        /\ UNCHANGED <<probe, tasks>>

Next ==
    \/ Tick
    \/ ClockSetBack
    \/ Delivered
    \/ CreateCommand
    \/ UpdateCommand
    \/ DaysSinceCommand
    \/ ResetCommand
    \/ RemoveCommand
    \/ ListCommand
    \/ Autocomplete

Spec == Init /\ [][Next]_vars

\* ------------------------------------------------- the store can fail
\* What the user is told when a store call fails and the handler passes the
\* error on with '?'.
StoreFailure == <<"StoreFailure">>

\* A list that stops at the load that fails and says the lines it has.
list_store_failure_partial(guild, fault) ==
    /\ guild # None
    /\ \E order \in Orders(DOMAIN persist) :
           IF fault = "load"
           THEN \E i \in DOMAIN order :
                    /\ KeyInGuild(order[i], to_string(guild))
                    /\ reply' = [Reply("list", guild, <<>>, <<>>, TRUE,
                                       ListMessage(SubSeq(order, 1, i - 1), persist,
                                                   to_string(guild)),
                                       <<"list", "load">>)
                                    EXCEPT !.fault = fault]
           ELSE reply' = [Reply("list", guild, <<>>, <<>>, FALSE, StoreFailure, <<"list">>)
                             EXCEPT !.fault = fault]
    /\ UNCHANGED <<persist, now, events>>

\* list when the store fails: persist.list()? fails (line 155), or the load
\* of a key that passed the test fails (line 160).  Either way '?' returns
\* the error and nothing of the listing built so far is said.
list_store_failure(guild, fault) ==
    /\ guild # None
    /\ \E order \in Orders(DOMAIN persist) :
           /\ fault = "load" => \E i \in DOMAIN order : KeyInGuild(order[i], to_string(guild))
           /\ reply' = [Reply("list", guild, <<>>, <<>>, FALSE, StoreFailure,
                              IF fault = "load" THEN <<"list", "load">> ELSE <<"list">>)
                           EXCEPT !.fault = fault]
    /\ UNCHANGED <<persist, now, events>>

\* An autocomplete_name that passes the error of the enumeration on.
autocomplete_name_store_error(guild, partial) ==
    /\ reply' = [Reply("autocomplete_name", guild, <<>>, partial, FALSE, StoreFailure,
                       <<"list">>)
                    EXCEPT !.fault = "list"]
    /\ UNCHANGED <<persist, now, events>>

\* autocomplete_name when persist.list() fails: the if let does not match
\* (line 20) and the answer is Vec::new() (line 28).
autocomplete_name_store_failure(guild, partial) ==
    /\ reply' = [Reply("autocomplete_name", guild, <<>>, partial, TRUE, <<>>, <<"list">>)
                    EXCEPT !.fault = "list"]
    /\ UNCHANGED <<persist, now, events>>

ListFails ==
    \E guild \in Contexts, fault \in {"list", "load"} :
        /\ Idle /\ list_store_failure(guild, fault) /\ created' = Created(reply')
        /\ UNCHANGED <<probe, tasks>>

AutocompleteFails ==
    \E guild \in Contexts, partial \in Partials :
        /\ Idle /\ autocomplete_name_store_failure(guild, partial)
        /\ created' = Created(reply')
        /\ UNCHANGED <<probe, tasks>>

NextFail ==
    \/ Next
    \/ ListFails
    \/ AutocompleteFails

SpecFail == Init /\ [][NextFail]_vars

\* ------------------------------------------------- the key encoding alone
KeyChars == {"1", ":", "a"}

RECURSIVE StringsOf(_)
StringsOf(len) ==
    IF len = 0 THEN {<<>>}
    ELSE {s \o <<c>> : s \in StringsOf(len - 1), c \in KeyChars}

KeyNames == UNION {StringsOf(len) : len \in 1..MaxNameLen}

KeyInputs == (1..MaxGuildId) \X KeyNames

InitKey ==
    /\ persist = <<>>
    /\ now = 0
    /\ reply = NoReply
    /\ events = <<>>
    /\ created = NoEvent
    /\ tasks = NoTasks
    /\ probe \in {[left |-> l, right |-> r, keys |-> <<>>] : l \in KeyInputs, r \in KeyInputs}

\* let guild = ..to_string(); let key = format!("{guild}:{name}"), for both
\* pairs.
Encode ==
    /\ probe.keys = <<>>
    /\ probe' = [probe EXCEPT !.keys = <<Key(to_string(probe.left[1]), probe.left[2]),
                                         Key(to_string(probe.right[1]), probe.right[2])>>]
    /\ UNCHANGED <<persist, now, reply, events, created, tasks>>

NextKey == Encode

SpecKey == InitKey /\ [][NextKey]_vars

\* ------------------------------------------------- commands in flight
\* The framework runs every command as a task of its own on a runtime with
\* several worker threads, so the store calls of the commands in flight
\* interleave.  A task is one command at a position of its handler: pc is
\* "start" before its first store call, "save" between the load and the
\* save of create and update, "loop" inside the for loop of list, "done"
\* after the reply; time is what update loaded, items what list has still
\* to visit, lines the text list has pushed so far.
ConcGuild == 1

Task(cmd, name, text) ==
    [cmd |-> cmd, guild |-> ConcGuild, name |-> name, text |-> text, pc |-> "start",
     time |-> 0, items |-> <<>>, lines |-> <<>>, ok |-> TRUE, content |-> <<>>]

ConcCommands ==
    {Task("create", n, t) : n \in Names, t \in Texts}
        \cup {Task("update", n, t) : n \in Names, t \in Texts}
        \cup {Task("remove", n, <<>>) : n \in Names}
        \cup {Task("list", <<>>, <<>>)}

\* The event the tasks start from, when there is one.
ConcEvent == <<ConcGuild, <<"a">>>>

TaskKey(t) == Key(to_string(t.guild), t.name)

Finish(t, ok, content) ==
    [t EXCEPT !.pc = "done", !.ok = ok, !.content = MaybeMakeEphemeral(content).content]

InitConc ==
    /\ \E present \in BOOLEAN :
           /\ persist = (IF present
                         THEN Save(<<>>, Key(to_string(ConcEvent[1]), ConcEvent[2]),
                                   [text |-> <<"t", "0">>, time |-> 0])
                         ELSE <<>>)
           /\ events = (IF present THEN Save(<<>>, ConcEvent, <<"t", "0">>) ELSE <<>>)
    /\ now = 0
    /\ reply = NoReply
    /\ created = NoEvent
    /\ probe = NoProbe
    /\ tasks \in [1..MaxTasks -> ConcCommands]

\* create, line 44: the load.
create_load(i) ==
    /\ tasks[i].cmd = "create" /\ tasks[i].pc = "start"
    /\ tasks' = [tasks EXCEPT ![i] =
                    IF Has(persist, TaskKey(@))
                    THEN Finish(@, FALSE, <<"*", "Event already exists.">>)
                    ELSE [@ EXCEPT !.pc = "save"]]
    /\ UNCHANGED <<persist, now, reply, events, created, probe>>

\* create, lines 45-50: the save and the reply.
create_save(i) ==
    /\ tasks[i].cmd = "create" /\ tasks[i].pc = "save"
    /\ persist' = Save(persist, TaskKey(tasks[i]), [text |-> tasks[i].text, time |-> now])
    /\ events' = Save(events, <<tasks[i].guild, tasks[i].name>>, tasks[i].text)
    /\ tasks' = [tasks EXCEPT ![i] = Finish(@, TRUE, <<"*", "Event created.">>)]
    /\ UNCHANGED <<now, reply, created, probe>>

\* update, line 70: the load.
update_load(i) ==
    /\ tasks[i].cmd = "update" /\ tasks[i].pc = "start"
    /\ tasks' = [tasks EXCEPT ![i] =
                    IF Has(persist, TaskKey(@))
                    THEN [@ EXCEPT !.pc = "save",
                                   !.time = persist[TaskKey(tasks[i])].time]
                    ELSE Finish(@, FALSE, <<"*", "Event does not exist.">>)]
    /\ UNCHANGED <<persist, now, reply, events, created, probe>>

\* update, lines 71-75: the save and the reply.
update_save(i) ==
    /\ tasks[i].cmd = "update" /\ tasks[i].pc = "save"
    /\ persist' = Save(persist, TaskKey(tasks[i]),
                       UpdateValue(tasks[i].text, tasks[i].time, now))
    /\ events' = Save(events, <<tasks[i].guild, tasks[i].name>>, tasks[i].text)
    /\ tasks' = [tasks EXCEPT ![i] = Finish(@, TRUE, <<"*", "Event updated.">>)]
    /\ UNCHANGED <<now, reply, created, probe>>

\* remove, lines 141-146: the one store call and the reply.
remove_call(i) ==
    /\ tasks[i].cmd = "remove" /\ tasks[i].pc = "start"
    /\ IF Has(persist, TaskKey(tasks[i]))
       THEN /\ persist' = Remove(persist, TaskKey(tasks[i]))
            /\ events' = Remove(events, <<tasks[i].guild, tasks[i].name>>)
            /\ tasks' = [tasks EXCEPT ![i] = Finish(@, TRUE, <<"*", "Event removed.">>)]
       ELSE /\ tasks' = [tasks EXCEPT ![i] =
                            Finish(@, FALSE, <<"*", "Event does not exist.">>)]
            /\ UNCHANGED <<persist, events>>
    /\ UNCHANGED <<now, reply, created, probe>>

\* list, line 155: the enumeration the loop runs over.
list_enumerate(i) ==
    /\ tasks[i].cmd = "list" /\ tasks[i].pc = "start"
    /\ \E order \in Orders(DOMAIN persist) :
           tasks' = [tasks EXCEPT ![i] = [@ EXCEPT !.pc = "loop", !.items = order]]
    /\ UNCHANGED <<persist, now, reply, events, created, probe>>

\* list, lines 156-165: one turn of the loop; the load of a key that is no
\* longer stored is an Err that the ? of line 160 returns.
list_item(i) ==
    /\ tasks[i].cmd = "list" /\ tasks[i].pc = "loop" /\ tasks[i].items # <<>>
    /\ LET item == Head(tasks[i].items)
           guild == to_string(tasks[i].guild) IN
       tasks' = [tasks EXCEPT ![i] =
                    IF ~KeyInGuild(item, guild)
                    THEN [@ EXCEPT !.items = Tail(@)]
                    ELSE IF Has(persist, item)
                    THEN [@ EXCEPT !.items = Tail(@),
                                   !.lines = @ \o ListLines(<<item>>, persist, guild)]
                    ELSE Finish(@, FALSE, StoreFailure)]
    /\ UNCHANGED <<persist, now, reply, events, created, probe>>

\* list, lines 167-175: pop and the reply.
list_say(i) ==
    /\ tasks[i].cmd = "list" /\ tasks[i].pc = "loop" /\ tasks[i].items = <<>>
    /\ tasks' = [tasks EXCEPT ![i] =
                    Finish(@, TRUE,
                           IF Pop(@.lines) = <<>> THEN <<"*", "No events found">>
                           ELSE <<"*">> \o Pop(@.lines))]
    /\ UNCHANGED <<persist, now, reply, events, created, probe>>

CreateLoads == \E i \in DOMAIN tasks : create_load(i)
CreateSaves == \E i \in DOMAIN tasks : create_save(i)
UpdateLoads == \E i \in DOMAIN tasks : update_load(i)
UpdateSaves == \E i \in DOMAIN tasks : update_save(i)
RemoveCalls == \E i \in DOMAIN tasks : remove_call(i)
ListEnumerates == \E i \in DOMAIN tasks : list_enumerate(i)
ListItems == \E i \in DOMAIN tasks : list_item(i)
ListSays == \E i \in DOMAIN tasks : list_say(i)

NextConc ==
    \/ CreateLoads
    \/ CreateSaves
    \/ UpdateLoads
    \/ UpdateSaves
    \/ RemoveCalls
    \/ ListEnumerates
    \/ ListItems
    \/ ListSays

SpecConc == InitConc /\ [][NextConc]_vars

\* ---------------------------------------------------------------- claims
T0 == <<"t", "0">>

EventKey(guild, name) == Key(to_string(guild), name)

\* The names of the events of a guild, as the commands have reported them.
NamesIn(guild) == {n \in Names : <<guild, n>> \in DOMAIN events}

\* The store without the records of the events of the other guilds.
OtherGuildKeys(guild) ==
    {EventKey(e[1], e[2]) : e \in {d \in DOMAIN events : d[1] # guild}}

WithoutOthers(guild) ==
    [k \in DOMAIN persist \ OtherGuildKeys(guild) |-> persist[k]]

\* A step in which the command cmd runs in guild.
Runs(cmd, guild) == Idle /\ reply'.cmd = cmd /\ reply'.guild = guild

\* C1: isolation.  For every guild, what list and autocomplete_name return
\* there is what they would return if the events created in the other guilds
\* were not in the store, and days_since, update and remove find no event
\* that was not created in the guild itself.
C1_IsolationStep ==
    \A guild \in GuildIds :
        /\ Runs("list", guild) =>
               \E order \in Orders(DOMAIN WithoutOthers(guild)) :
                   reply'.content =
                       MaybeMakeEphemeral(ListMessage(order, WithoutOthers(guild),
                                                      to_string(guild))).content
        /\ Runs("autocomplete_name", guild) =>
               \E order \in Orders(DOMAIN WithoutOthers(guild)) :
                   reply'.names = AutocompleteNames(order, to_string(guild), reply'.text)
        /\ \A cmd \in {"days_since", "update", "remove"} :
               (Runs(cmd, guild) /\ <<guild, reply'.name>> \notin DOMAIN events)
                   => ~reply'.ok

C1_Isolation == [][C1_IsolationStep]_vars

\* C2: after a successful reset the record under the composite key has
\* since = the time of the reset and the description last set by create or
\* update, and a days_since issued right away reports 0 days.
C2_ResetStampsEvent ==
    (reply.cmd = "reset" /\ reply.ok) =>
        LET key == EventKey(reply.guild, reply.name)
            text == events[<<reply.guild, reply.name>>] IN
        /\ Has(persist, key)
        /\ persist[key] = [text |-> text, time |-> now]
        /\ DaysSinceMessage(persist[key].text, persist[key].time, now)
               = <<"It has been ", "0", " ", "days", " since ">> \o text \o <<".">>

\* C3: a create on an event that exists fails with 'Event already exists.'
\* and leaves the stored record, description and since, as it was.
C3_CreateExistingStep ==
    \A guild \in GuildIds, name \in Names :
        (Runs("create", guild) /\ reply'.name = name
            /\ Has(persist, EventKey(guild, name)))
        => /\ ~reply'.ok
           /\ reply'.content = <<"Event already exists.">>
           /\ Has(persist', EventKey(guild, name))
           /\ persist'[EventKey(guild, name)] = persist[EventKey(guild, name)]

C3_CreateExisting == [][C3_CreateExistingStep]_vars

C3_Witness ==
    /\ reply.cmd = "create" /\ ~reply.ok
    /\ reply.content = <<"Event already exists.">>
    /\ Has(persist, EventKey(reply.guild, reply.name))
    /\ persist[EventKey(reply.guild, reply.name)].text # reply.text
    /\ persist[EventKey(reply.guild, reply.name)].time # now

\* C4: a successful update replaces the description with the given text and
\* leaves the since of the event and every other record of the store as they
\* were.
C4_UpdateStep ==
    \A guild \in GuildIds, name \in Names :
        (Runs("update", guild) /\ reply'.name = name /\ reply'.ok)
        => LET key == EventKey(guild, name) IN
           /\ Has(persist, key)
           /\ DOMAIN persist' = DOMAIN persist
           /\ persist'[key].text = reply'.text
           /\ persist'[key].time = persist[key].time
           /\ \A k \in DOMAIN persist \ {key} : persist'[k] = persist[k]

C4_Update == [][C4_UpdateStep]_vars

C4_Witness ==
    /\ reply.cmd = "update" /\ reply.ok
    /\ Cardinality(DOMAIN persist) > 1
    /\ persist[EventKey(reply.guild, reply.name)].text = reply.text
    /\ persist[EventKey(reply.guild, reply.name)].time # now

\* C5: a successful remove leaves the composite key absent; an absent key
\* stays absent until a create of that very event succeeds; and days_since,
\* update, reset and remove on an absent key fail with 'Event does not
\* exist.'.
C5_RemovedStep ==
    /\ (Idle /\ reply'.cmd \in {"days_since", "update", "reset", "remove"}) =>
           \A guild \in GuildIds, name \in Names :
               LET key == EventKey(guild, name) IN
               /\ (Runs("remove", guild) /\ reply'.name = name /\ reply'.ok)
                      => (Has(persist, key) /\ ~Has(persist', key))
               /\ \A cmd \in {"days_since", "update", "reset", "remove"} :
                      (Runs(cmd, guild) /\ reply'.name = name /\ ~Has(persist, key))
                          => (~reply'.ok /\ reply'.content = <<"Event does not exist.">>)
    /\ persist' # persist =>
           \A guild \in GuildIds, name \in Names :
               LET key == EventKey(guild, name) IN
               (~Has(persist, key) /\ Has(persist', key))
                   => (Runs("create", guild) /\ reply'.name = name /\ reply'.ok)

C5_Removed == [][C5_RemovedStep]_vars

C5_Witness ==
    /\ reply.cmd = "remove" /\ reply.ok
    /\ reply.content = <<"Event removed.">>
    /\ ~Has(persist, EventKey(reply.guild, reply.name))
    /\ <<reply.guild, reply.name>> \notin DOMAIN events

\* The lines of a listing, joined by newlines, no newline after the last.
RECURSIVE JoinLines(_)
JoinLines(lines) ==
    IF lines = <<>> THEN <<>>
    ELSE IF Len(lines) = 1 THEN lines[1]
    ELSE lines[1] \o <<"\n">> \o JoinLines(Tail(lines))

\* 'name: description' of an event of the guild.
EventLine(guild, name) == name \o <<": ">> \o events[<<guild, name>>]

\* C6: list in a guild that has events renders exactly one line
\* 'name: description' for each event of the guild and nothing else, joined
\* by newlines, with no trailing newline.
C6_ListExact ==
    (reply.cmd = "list" /\ reply.guild # None /\ NamesIn(reply.guild) # {}) =>
        /\ reply.ok
        /\ \E order \in Orders(NamesIn(reply.guild)) :
               reply.content =
                   JoinLines([i \in DOMAIN order |-> EventLine(reply.guild, order[i])])

\* C7: autocomplete_name returns exactly the names of the events of the
\* guild that contain partial, in the order of some enumeration, and no name
\* of another guild.
C7_AutocompleteExact ==
    (reply.cmd = "autocomplete_name" /\ reply.guild # None) =>
        \E order \in Orders(NamesIn(reply.guild)) :
            reply.names = SelectSeq(order, LAMBDA n : Contains(n, reply.text))

\* C8: list in a guild with no events says 'No events found' and is no
\* error, whatever the other guilds hold and whatever ran before.
C8_ListEmpty ==
    (reply.cmd = "list" /\ reply.guild # None /\ NamesIn(reply.guild) = {}) =>
        (reply.ok /\ reply.content = <<"No events found">>)

\* A days_since that answers the create of (guild, name, "t0") that ran
\* right before it.
AfterCreateT0 ==
    /\ reply.cmd = "days_since"
    /\ created = <<reply.guild, reply.name, T0>>

\* C9 as claimed: create(g, n, "t0") followed immediately by days_since(g, n)
\* returns the singular '0 day since t0.'.
C9_ZeroDaySingular ==
    AfterCreateT0 =>
        (reply.ok /\ reply.content
                        = <<"It has been ", "0", " ", "day", " since ", "t", "0", ".">>)

\* C9 as amended: create(g, n, "t0") followed immediately by days_since(g, n)
\* returns 'It has been 0 days since t0.', with the plural.
C9_ZeroDaysPlural ==
    AfterCreateT0 =>
        (reply.ok /\ reply.content
                        = <<"It has been ", "0", " ", "days", " since ", "t", "0", ".">>)

C9_Witness ==
    /\ AfterCreateT0
    /\ reply.ok
    /\ persist[EventKey(reply.guild, reply.name)] = [text |-> T0, time |-> now]
    /\ now > 0

\* The day counts the clock allows.
DayCounts == (-MaxTime)..MaxTime

\* C10: days_since on an existing event renders 'It has been N <unit> since
\* <description>.' with the unit 'day' if and only if N = 1 and 'days' for
\* every other N, 0 and the negative ones included.
C10_Unit ==
    (reply.cmd = "days_since" /\ reply.guild # None
        /\ Has(persist, EventKey(reply.guild, reply.name))) =>
        /\ reply.ok
        /\ \E n \in DayCounts :
               reply.content =
                   <<"It has been ">> \o to_string(n)
                       \o <<" ", IF n = 1 THEN "day" ELSE "days", " since ">>
                       \o persist[EventKey(reply.guild, reply.name)].text \o <<".">>

C10_Witness ==
    /\ reply.cmd = "days_since" /\ reply.ok
    /\ reply.content
           = <<"It has been ", "1", " ", "day", " since ">>
                 \o persist[EventKey(reply.guild, reply.name)].text \o <<".">>

\* A plural case of C10 with a negative count: the stored time lies ahead of
\* the clock.
C10_WitnessNegative ==
    /\ reply.cmd = "days_since" /\ reply.ok
    /\ reply.content
           = <<"It has been ", "-", "1", " ", "days", " since ">>
                 \o persist[EventKey(reply.guild, reply.name)].text \o <<".">>

\* n is d clock ticks in whole days, truncated toward zero.
TruncatedDays(d, n) ==
    IF d >= 0
    THEN n >= 0 /\ n * TicksPerDay <= d /\ d < (n + 1) * TicksPerDay
    ELSE n <= 0 /\ (-n) * TicksPerDay <= -d /\ -d < (1 - n) * TicksPerDay

\* C11: the N that days_since reports is (current time - stored since) in
\* whole days truncated toward zero; a stored time in the future gives a
\* negative N that is shown as it is, not clamped to zero.
C11_TruncatedDays ==
    (reply.cmd = "days_since" /\ reply.guild # None
        /\ Has(persist, EventKey(reply.guild, reply.name))) =>
        \E n \in DayCounts :
            /\ TruncatedDays(now - persist[EventKey(reply.guild, reply.name)].time, n)
            /\ SubSeq(reply.content, 1, Len(to_string(n)) + 2)
                   = <<"It has been ">> \o to_string(n) \o <<" ">>

C11_Witness ==
    /\ reply.cmd = "days_since" /\ reply.ok
    /\ now - persist[EventKey(reply.guild, reply.name)].time = -TicksPerDay
    /\ SubSeq(reply.content, 1, 4) = <<"It has been ", "-", "1", " ">>

\* A negative duration of less than a day counts as 0 days.
C11_WitnessTruncated ==
    /\ reply.cmd = "days_since" /\ reply.ok
    /\ now - persist[EventKey(reply.guild, reply.name)].time = -1
    /\ SubSeq(reply.content, 1, 3) = <<"It has been ", "0", " ">>

\* C12: update, days_since, reset and remove on an event whose composite key
\* is not in the store fail with 'Event does not exist.' and leave the whole
\* store as it was.
C12_NotFoundStep ==
    (Idle /\ reply'.cmd \in {"update", "days_since", "reset", "remove"}) =>
        \A guild \in GuildIds, name \in Names :
            \A cmd \in {"update", "days_since", "reset", "remove"} :
                (Runs(cmd, guild) /\ reply'.name = name
                    /\ ~Has(persist, EventKey(guild, name)))
                => /\ ~reply'.ok
                   /\ reply'.content = <<"Event does not exist.">>
                   /\ persist' = persist

C12_NotFound == [][C12_NotFoundStep]_vars

C12_Witness ==
    /\ reply.cmd \in {"update", "days_since", "reset", "remove"}
    /\ ~reply.ok
    /\ reply.content = <<"Event does not exist.">>
    /\ ~Has(persist, EventKey(reply.guild, reply.name))
    /\ persist # <<>>

\* C14: a command that has no guild makes no call on the store, no load,
\* save, remove or enumeration: the guild is looked at first.
C14_NoGuildNoStore ==
    (reply.cmd # "none" /\ reply.guild = None) => reply.ops = <<>>

\* C17: the keys of the store are exactly the composite keys of the events
\* created and not removed since.
C17_KeySet ==
    DOMAIN persist = {EventKey(e[1], e[2]) : e \in DOMAIN events}

\* C13: the key encoding is injective: two different (guild, name) pairs
\* never get the same store key, also when the name contains ':'.
C13_KeyInjective ==
    (probe # NoProbe /\ probe.keys # <<>> /\ probe.left # probe.right)
        => probe.keys[1] # probe.keys[2]

\* Two pairs whose names contain ':' and whose guild and name, read one
\* after the other, are the same characters.
C13_Witness ==
    /\ probe # NoProbe /\ probe.keys # <<>>
    /\ probe.left[1] # probe.right[1]
    /\ Contains(probe.left[2], <<":">>)
    /\ Contains(probe.right[2], <<":">>)
    /\ to_string(probe.left[1]) \o probe.left[2]
           = to_string(probe.right[1]) \o probe.right[2]
    /\ probe.keys[1] # probe.keys[2]

\* C15: autocomplete_name never reports an error: with an empty store, with
\* an enumeration that fails, or without a guild, it returns the empty
\* sequence.
C15_AutocompleteNeverFails ==
    reply.cmd = "autocomplete_name" =>
        /\ reply.ok
        /\ reply.content = <<>>
        /\ (persist = <<>> \/ reply.fault # "none" \/ reply.guild = None)
               => reply.names = <<>>

C15_Witness ==
    /\ reply.cmd = "autocomplete_name" /\ reply.ok
    /\ reply.fault = "list"
    /\ reply.guild # None
    /\ \E key \in DOMAIN persist :
           /\ KeyInGuild(key, to_string(reply.guild))
           /\ Contains(key, reply.text)
    /\ reply.names = <<>>

\* C16: when the enumeration or a load fails during list, the call fails
\* with the error and no text of the listing, not a part of it either, is
\* sent.
C16_ListAborts ==
    (reply.cmd = "list" /\ reply.fault # "none") =>
        /\ ~reply.ok
        /\ reply.content = StoreFailure

C16_Witness ==
    /\ reply.cmd = "list" /\ ~reply.ok
    /\ reply.fault = "load"
    /\ Cardinality({key \in DOMAIN persist : KeyInGuild(key, to_string(reply.guild))}) > 1
    /\ reply.content = StoreFailure

\* C18: of two create commands in flight for the same event, with no remove
\* of it around, at most one says 'Event created.', and once both are done
\* the stored text is the one the successful create wrote.
SameEvent(i, j) ==
    tasks[i].guild = tasks[j].guild /\ tasks[i].name = tasks[j].name

NoTaskOn(cmds, i) ==
    \A k \in DOMAIN tasks : ~(tasks[k].cmd \in cmds /\ SameEvent(k, i))

C18_OneCreateWins ==
    \A i, j \in DOMAIN tasks :
        (/\ i # j
         /\ tasks[i].cmd = "create" /\ tasks[j].cmd = "create" /\ SameEvent(i, j)
         /\ tasks[i].pc = "done" /\ tasks[j].pc = "done"
         /\ NoTaskOn({"remove"}, i))
            => /\ ~(tasks[i].ok /\ tasks[j].ok)
               /\ (tasks[i].ok /\ NoTaskOn({"update"}, i))
                      => persist[TaskKey(tasks[i])].text = tasks[i].text

\* C19: once a remove has said 'Event removed.' and the update of the same
\* event in flight with it is done too, the event is not stored, no create
\* of it being around.
C19_NoResurrection ==
    \A i, j \in DOMAIN tasks :
        (/\ tasks[i].cmd = "remove" /\ tasks[i].pc = "done" /\ tasks[i].ok
         /\ tasks[j].cmd = "update" /\ tasks[j].pc = "done" /\ SameEvent(i, j)
         /\ NoTaskOn({"create"}, i))
            => ~Has(persist, TaskKey(tasks[i]))

\* C20: a list in flight with create, update and remove commands of its
\* guild ends with a listing or with 'No events found', never with an error
\* (no store call fails for a storage reason here).
C20_ListCompletes ==
    \A i \in DOMAIN tasks :
        (tasks[i].cmd = "list" /\ tasks[i].pc = "done") => tasks[i].ok
====
